---------------------------- MODULE Spec2Model ----------------------------
(***************************************************************************)
(* A model of the server pool of go-load-balancer: the Backend records,    *)
(* the ServerPool operations (internal/config/config.go, package pool),    *)
(* the round-robin policy (load-balancer/main.go, package algorithm), the  *)
(* reverse-proxy ErrorHandler that AddBackend installs and the admin API's *)
(* /api/backends handler (internal/admin/api.go).                          *)
(*                                                                         *)
(* Backend objects live in `heap`; a *Backend is an index into it, so two  *)
(* backends with the same URL are still two objects.  s.backends is the    *)
(* sequence `backends` of such indices.                                    *)
(***************************************************************************)
EXTENDS Integers, Sequences, FiniteSets, TLC

(* ------------------------------ bounds -------------------------------- *)
\* number of distinct well-formed backend URLs
NumURL == 2
\* number of Backend objects ever allocated
MaxObj == 2
\* number of inbound requests
NumReq == 1
\* re-dispatches of one request the model follows (the code has no bound)
MaxHops == 4
\* largest per-backend max_connections a config names
MaxCap == 1
\* longest backend list handed to UpdateBackends
MaxCfgLen == 2
\* SpecCAS: concurrent callers of IncrementConnections, largest MaxConnections
NumCallers == 3
CasCap == 2
\* SpecRR: largest pool, largest starting cursor, number of selections
NumRR == 3
MaxStart == 2
MaxPicks == 9
\* SpecPool: largest weight a config names, releases below zero followed
MaxWeight == 1
MaxUnder == 1
\* SpecAdmin: distinct non-empty location paths, locations of a service
NumPath == 2
MaxLocs == 2

(* -------------------------- program constants ------------------------- *)
\* NewServerPool: maxConnections: 1000
DefaultMaxConnections == 1000
\* ErrorHandler: if retries < 3
RetryLimit == 3

URLs == 1..NumURL
\* a string url.Parse rejects
BadURL == 0
Reqs == 1..NumReq
Callers == 1..NumCallers
NoBackend == 0

VARIABLES
  heap,            \* the Backend objects allocated so far
  backends,        \* ServerPool.backends: sequence of heap indices
  current,         \* ServerPool.current
  maxConnections,  \* ServerPool.maxConnections
  req,             \* the requests (or callers) and where each one stands
  picks,           \* history: the backends chosen by successive selections
  start,           \* history: the connection count the callers started from
  op,              \* history: the last pool or admin call, its input and result
  mu,              \* the locks held (ServerPool.mu, Backend.mu) and awaited
  main,            \* the entry point: main, its goroutine, channels and context
  health           \* a health prober: its thresholds, counters and probe results

vars == <<heap, backends, current, maxConnections, req, picks, start, op,
          mu, main, health>>
pool == <<heap, backends, current, maxConnections>>

\* the value of op before any recorded call
NoCall == [name |-> "none", arg |-> <<>>, err |-> FALSE]

\* no lock is held or awaited
NoLocks == [held |-> {}, waiting |-> {}]
\* the entry point is not part of the specification at hand
NotRunning == [pc |-> "none"]
\* no prober is part of the specification at hand
NoProber == [on |-> FALSE]

\* specifications that follow neither locks, the entry point nor a prober
\* start here and leave these variables alone
others == <<mu, main, health>>
NoOthers == mu = NoLocks /\ main = NotRunning /\ health = NoProber

(* ------------------------------ helpers ------------------------------- *)
\* for _, b := range s.backends { if b.URL.String() == url.String() {...; break} }
\* the position in `bs` of the first backend whose URL is u, 0 when none
FirstIndex(h, bs, u) ==
  LET S == {i \in 1..Len(bs) : h[bs[i]].URL = u}
  IN IF S = {} THEN 0 ELSE CHOOSE i \in S : \A j \in S : i <= j

FirstMatch(h, bs, u) ==
  IF FirstIndex(h, bs, u) = 0 THEN NoBackend ELSE bs[FirstIndex(h, bs, u)]

\* BackendConfig values the admin API or a config file can carry
Cfgs == [URL : URLs \cup {BadURL}, Weight : {1}, MaxConnections : 0..MaxCap]

\* UpdateBackends reads only URL and Weight of a config
ReloadCfgs == {cfg \in Cfgs : cfg.MaxConnections = 0}

CfgLists == UNION {[1..n -> ReloadCfgs] : n \in 0..MaxCfgLen}

(* --------------------------- ServerPool ------------------------------- *)
\* NewServerPool
NewServerPool ==
  /\ heap = <<>>
  /\ backends = <<>>
  /\ current = 0
  /\ maxConnections = DefaultMaxConnections

\* the Backend literal of AddBackend; its proxy carries the pool's ErrorHandler
NewBackend(cfg, poolMax) ==
  [URL |-> cfg.URL, Alive |-> TRUE, Weight |-> cfg.Weight, CurrentWeight |-> 0,
   ConnectionCount |-> 0,
   MaxConnections |-> IF cfg.MaxConnections = 0 THEN poolMax ELSE cfg.MaxConnections,
   EH |-> "pool"]

\* ReloadedBackend without Alive: true (the zero value)
ReloadedBackendDown(cfg) ==
  [URL |-> cfg.URL, Alive |-> FALSE, Weight |-> cfg.Weight, CurrentWeight |-> 0,
   ConnectionCount |-> 0, MaxConnections |-> 0, EH |-> "default"]

\* the Backend literal of UpdateBackends: MaxConnections is left at its zero
\* value and the proxy is a plain NewSingleHostReverseProxy (default handler)
ReloadedBackend(cfg) ==
  [URL |-> cfg.URL, Alive |-> TRUE, Weight |-> cfg.Weight, CurrentWeight |-> 0,
   ConnectionCount |-> 0, MaxConnections |-> 0, EH |-> "default"]

\* AddBackend putting the new backend in front of the list
AddBackendInFront(cfg) ==
  /\ IF cfg.URL = BadURL
       THEN UNCHANGED <<heap, backends>>
       ELSE /\ Len(heap) < MaxObj
            /\ heap' = Append(heap, NewBackend(cfg, maxConnections))
            /\ backends' = <<Len(heap) + 1>> \o backends
  /\ UNCHANGED <<current, maxConnections, req>>

AddBackend(cfg) ==
  /\ IF cfg.URL = BadURL
       THEN UNCHANGED <<heap, backends>>
       ELSE /\ Len(heap) < MaxObj
            /\ heap' = Append(heap, NewBackend(cfg, maxConnections))
            /\ backends' = Append(backends, Len(heap) + 1)
  /\ UNCHANGED <<current, maxConnections, req>>

RemoveAt(s, i) == SubSeq(s, 1, i - 1) \o SubSeq(s, i + 1, Len(s))

\* RemoveBackend without the return inside the loop: every match goes
RemoveBackendEvery(u) ==
  /\ IF u = BadURL \/ FirstIndex(heap, backends, u) = 0
       THEN UNCHANGED backends
       ELSE backends' = SelectSeq(backends, LAMBDA b : heap[b].URL # u)
  /\ UNCHANGED <<heap, current, maxConnections, req>>

RemoveBackend(u) ==
  /\ IF u = BadURL \/ FirstIndex(heap, backends, u) = 0
       THEN UNCHANGED backends
       ELSE backends' = RemoveAt(backends, FirstIndex(heap, backends, u))
  /\ UNCHANGED <<heap, current, maxConnections, req>>

\* b.mu.Lock(); b.Alive = alive on the first backend of the pool with that URL
MarkedHeap(h, bs, u, alive) ==
  IF FirstMatch(h, bs, u) = NoBackend THEN h
  ELSE [h EXCEPT ![FirstMatch(h, bs, u)].Alive = alive]

MarkBackendStatus(u, alive) ==
  /\ heap' = MarkedHeap(heap, backends, u, alive)
  /\ UNCHANGED <<backends, current, maxConnections, req>>

\* the loop of UpdateBackends from configs[i] on: h is the heap so far, nb is
\* newBackends; the result says whether the loop ran to the end (ok) and gives
\* the heap and newBackends at the point it stopped
RECURSIVE UpdateLoop(_, _, _, _, _)
UpdateLoop(configs, i, old, h, nb) ==
  IF i > Len(configs) THEN [ok |-> TRUE, heap |-> h, nb |-> nb]
  ELSE IF configs[i].URL = BadURL THEN [ok |-> FALSE, heap |-> h, nb |-> nb]
  ELSE LET existing == FirstMatch(h, old, configs[i].URL)
       IN IF existing # NoBackend
            THEN UpdateLoop(configs, i + 1, old,
                            [h EXCEPT ![existing].Weight = configs[i].Weight],
                            Append(nb, existing))
            ELSE UpdateLoop(configs, i + 1, old,
                            Append(h, ReloadedBackend(configs[i])),
                            Append(nb, Len(h) + 1))

UpdateBackends(configs) ==
  LET r == UpdateLoop(configs, 1, backends, heap, <<>>)
  IN /\ Len(r.heap) <= MaxObj
     /\ heap' = r.heap
     /\ backends' = IF r.ok THEN r.nb ELSE backends
     /\ UNCHANGED <<current, maxConnections, req>>


\* GetBackendByURL: the first backend of the pool with that URL, or nil
GetBackendByURL(u) == FirstMatch(heap, backends, u)

\* GetBackends: one algorithm.Server per backend, filled with copies of the
\* backend's fields as they are under the read lock
ServerOf(b) ==
  [URL |-> b.URL, Weight |-> b.Weight, CurrentWeight |-> b.CurrentWeight,
   ConnectionCount |-> b.ConnectionCount,
   MaxConnections |-> b.MaxConnections, Alive |-> b.Alive]

GetBackends == [i \in 1..Len(backends) |-> ServerOf(heap[backends[i]])]

(* ----------------------- round-robin policy --------------------------- *)
\* Server.CanAcceptConnection
CanAcceptConnection(server) == server.ConnectionCount < server.MaxConnections

\* the scan loop of NextServer: i runs from 0 to l-1 over (idx + i) % l and
\* the first alive server that can accept a connection wins; the result is
\* its 1-based position in servers, 0 for nil
RECURSIVE ScanFrom(_, _, _)
ScanFrom(servers, idx, i) ==
  IF i >= Len(servers) THEN 0
  ELSE LET serverIdx == (idx + i) % Len(servers)
       IN IF servers[serverIdx + 1].Alive /\ CanAcceptConnection(servers[serverIdx + 1])
            THEN serverIdx + 1
            ELSE ScanFrom(servers, idx, i + 1)

\* NextServerPick scanning from the cursor itself instead of cursor + 1
NextServerPickOffByOne(servers, currentIdx) ==
  IF Len(servers) = 0 THEN 0
  ELSE ScanFrom(servers, currentIdx % Len(servers), 0)

\* NextServer once servers and currentIdx are read: next := currentIdx + 1,
\* idx := next % len(servers), then the scan
NextServerPick(servers, currentIdx) ==
  IF Len(servers) = 0 THEN 0
  ELSE ScanFrom(servers, (currentIdx + 1) % Len(servers), 0)

(* ----------------------------- requests ------------------------------- *)
\* a request before it is dispatched; retry is the value its context carries
\* under RetryKey (GetRetryFromContext gives 0 when there is none)
NewReq(retry) ==
  [pc |-> "idle", retry |-> retry, cancelled |-> FALSE, snap |-> <<>>,
   cur |-> 0, srv |-> BadURL, b0 |-> NoBackend, px |-> NoBackend, failed |-> NoBackend,
   nxt |-> 0, ld |-> 0, ok |-> FALSE, resp |-> 0, hops |-> 0]

Set(r, f) == req' = [req EXCEPT ![r] = f]

\* DecrementConnections on backend b (b = NoBackend: nothing was acquired)
Released(h, b) ==
  IF b = NoBackend THEN h
  ELSE [h EXCEPT ![b].ConnectionCount = h[b].ConnectionCount - 1]

\* the dispatcher answers the request: the status, if any, is written and the
\* slot the dispatcher acquired is released as the handler unwinds; the
\* request's locals are dead from here on
Finish(r, status) ==
  /\ heap' = Released(heap, req[r].b0)
  /\ Set(r, [NewReq(req[r].retry) EXCEPT !.pc = "done", !.resp = status,
                                         !.cancelled = req[r].cancelled,
                                         !.hops = req[r].hops])

\* NextServer, first statement: servers := pool.GetBackends()
Dispatch(r) ==
  /\ req[r].pc = "idle"
  /\ IF Len(backends) = 0
       THEN Finish(r, 503)
       ELSE /\ Set(r, [req[r] EXCEPT !.pc = "rr_load", !.snap = GetBackends])
            /\ UNCHANGED heap
  /\ UNCHANGED <<backends, current, maxConnections>>

\* currentIdx := pool.GetCurrentIndex()
RRLoad(r) ==
  /\ req[r].pc = "rr_load"
  /\ Set(r, [req[r] EXCEPT !.pc = "rr_store", !.cur = current])
  /\ UNCHANGED pool

\* RRStore with the SetCurrentIndex call left out
RRStoreNoAdvance(r) ==
  /\ req[r].pc = "rr_store"
  /\ LET p == NextServerPick(req[r].snap, req[r].cur)
     IN IF p = 0
          THEN Finish(r, 503)
          ELSE /\ Set(r, [req[r] EXCEPT !.pc = "lookup", !.snap = <<>>,
                                        !.srv = req[r].snap[p].URL])
               /\ UNCHANGED heap
  /\ UNCHANGED <<backends, current, maxConnections>>

\* pool.SetCurrentIndex(currentIdx + 1) and the scan of the snapshot
RRStore(r) ==
  /\ req[r].pc = "rr_store"
  /\ current' = req[r].cur + 1
  /\ LET p == NextServerPick(req[r].snap, req[r].cur)
     IN IF p = 0
          THEN Finish(r, 503)
          ELSE /\ Set(r, [req[r] EXCEPT !.pc = "lookup", !.snap = <<>>,
                                        !.srv = req[r].snap[p].URL])
               /\ UNCHANGED heap
  /\ UNCHANGED <<backends, maxConnections>>

\* the dispatcher turns the chosen Server into the pool's Backend by its URL
Lookup(r) ==
  /\ req[r].pc = "lookup"
  /\ LET b == GetBackendByURL(req[r].srv)
     IN IF b = NoBackend
          THEN Finish(r, 503)
          ELSE /\ Set(r, [req[r] EXCEPT !.pc = "inc_load", !.b0 = b])
               /\ UNCHANGED heap
  /\ UNCHANGED <<backends, current, maxConnections>>

\* IncrementConnections: current := atomic.LoadInt32(&b.ConnectionCount) and
\* the capacity test
IncLoad(r) ==
  /\ req[r].pc = "inc_load"
  /\ LET c == heap[req[r].b0].ConnectionCount
     IN IF c >= heap[req[r].b0].MaxConnections
          THEN Set(r, [req[r] EXCEPT !.pc = "inc_ret", !.ok = FALSE, !.ld = c])
          ELSE Set(r, [req[r] EXCEPT !.pc = "inc_cas", !.ld = c])
  /\ UNCHANGED pool

\* IncCas with the compare lost: a plain store of current+1
IncCasBlindStore(r) ==
  /\ req[r].pc = "inc_cas"
  /\ heap' = [heap EXCEPT ![req[r].b0].ConnectionCount = req[r].ld + 1]
  /\ Set(r, [req[r] EXCEPT !.pc = "inc_ret", !.ok = TRUE])
  /\ UNCHANGED <<backends, current, maxConnections>>

\* IncrementConnections: atomic.CompareAndSwapInt32(&b.ConnectionCount, current, current+1)
IncCas(r) ==
  /\ req[r].pc = "inc_cas"
  /\ IF heap[req[r].b0].ConnectionCount = req[r].ld
       THEN /\ heap' = [heap EXCEPT ![req[r].b0].ConnectionCount = req[r].ld + 1]
            /\ Set(r, [req[r] EXCEPT !.pc = "inc_ret", !.ok = TRUE])
       ELSE /\ Set(r, [req[r] EXCEPT !.pc = "inc_load"])
            /\ UNCHANGED heap
  /\ UNCHANGED <<backends, current, maxConnections>>

\* the dispatcher after try_acquire: forward, or 503 when the backend is full
Acquired(r) ==
  /\ req[r].pc = "inc_ret"
  /\ IF req[r].ok
       THEN /\ Set(r, [req[r] EXCEPT !.pc = "fwd", !.px = req[r].b0])
            /\ UNCHANGED heap
       ELSE /\ Set(r, [NewReq(req[r].retry) EXCEPT !.pc = "done", !.resp = 503,
                                                   !.cancelled = req[r].cancelled])
            /\ UNCHANGED heap
  /\ UNCHANGED <<backends, current, maxConnections>>

\* the client goes away and the request's context is cancelled; the only
\* reader of ctx.Done() is the ErrorHandler, so a cancellation is followed
\* from the forward on
Cancel(r) ==
  /\ req[r].pc \in {"fwd", "eh"}
  /\ ~req[r].cancelled
  /\ Set(r, [req[r] EXCEPT !.cancelled = TRUE])
  /\ UNCHANGED pool

\* the forward to req[r].px succeeds and the response is streamed back
ForwardOK(r) ==
  /\ req[r].pc = "fwd"
  /\ Finish(r, 200)
  /\ UNCHANGED <<backends, current, maxConnections>>

\* the forward to req[r].px fails with a transport error and the proxy calls
\* its ErrorHandler.  The handler AddBackend installs starts with
\* s.MarkBackendStatus(url, false); a proxy made by UpdateBackends has none,
\* and httputil's default handler answers 502
ForwardError(r) ==
  /\ req[r].pc = "fwd"
  /\ IF heap[req[r].px].EH = "pool"
       THEN /\ heap' = MarkedHeap(heap, backends, heap[req[r].px].URL, FALSE)
            /\ Set(r, [req[r] EXCEPT !.pc = "eh", !.failed = req[r].px])
       ELSE Finish(r, 502)
  /\ UNCHANGED <<backends, current, maxConnections>>

\* GetRetryFromContext
GetRetryFromContext(r) == req[r].retry

\* ErrorHandler after the mark: retries := GetRetryFromContext(r); when
\* retries < 3 and the context is not done it goes on to GetNextProxy,
\* otherwise it returns without writing anything
ErrorHandler(r) ==
  /\ req[r].pc = "eh"
  /\ IF GetRetryFromContext(r) < RetryLimit /\ ~req[r].cancelled
       THEN /\ req[r].hops < MaxHops
            /\ Set(r, [req[r] EXCEPT !.pc = "np_add"])
            /\ UNCHANGED heap
       ELSE Finish(r, 0)
  /\ UNCHANGED <<backends, current, maxConnections>>

\* GetNextPeer: next := atomic.AddUint64(&s.current, 1), before the lock
GetNextPeerAdd(r) ==
  /\ req[r].pc = "np_add"
  /\ current' = current + 1
  /\ Set(r, [req[r] EXCEPT !.pc = "np_lock", !.nxt = current + 1])
  /\ UNCHANGED <<heap, backends, maxConnections>>

\* GetNextPeer under the read lock: nil for an empty list, else
\* s.backends[next % l]; on nil GetNextProxy gives nil and the handler
\* answers 503
GetNextPeer(r) ==
  /\ req[r].pc = "np_lock"
  /\ IF Len(backends) = 0
       THEN Finish(r, 503)
       ELSE /\ Set(r, [req[r] EXCEPT !.pc = "np_inc",
                         !.px = backends[(req[r].nxt % Len(backends)) + 1]])
            /\ UNCHANGED heap
  /\ UNCHANGED <<backends, current, maxConnections>>

\* GetNextProxy that also marks the backend it hands out as alive
GetNextProxyRevives(r) ==
  /\ req[r].pc = "np_inc"
  /\ heap' = [heap EXCEPT ![req[r].px].ConnectionCount = @ + 1,
                          ![req[r].px].Alive = TRUE]
  /\ Set(r, [req[r] EXCEPT !.pc = "fwd", !.hops = @ + 1, !.failed = NoBackend])
  /\ UNCHANGED <<backends, current, maxConnections>>

\* GetNextProxy: atomic.AddInt32(&backend.ConnectionCount, 1), then the handler
\* calls proxy.ServeHTTP(w, r) with the request it was given
GetNextProxy(r) ==
  /\ req[r].pc = "np_inc"
  /\ heap' = [heap EXCEPT ![req[r].px].ConnectionCount = @ + 1]
  /\ Set(r, [req[r] EXCEPT !.pc = "fwd", !.hops = @ + 1, !.failed = NoBackend])
  /\ UNCHANGED <<backends, current, maxConnections>>

(* --------------------------- specification ---------------------------- *)
\* values a request's context may carry under RetryKey
CtxRetries == {0, RetryLimit}

Init ==
  /\ NewServerPool
  /\ req \in [Reqs -> {NewReq(n) : n \in CtxRetries}]
  /\ picks = <<>>
  /\ start = 0
  /\ op = NoCall
  /\ NoOthers

\* the history variables, the locks, the entry point and the prober belong
\* to the specifications below
Quiet == UNCHANGED <<picks, start, op, others>>

Next ==
  \/ \E r \in Reqs : Dispatch(r) /\ Quiet
  \/ \E r \in Reqs : RRLoad(r) /\ Quiet
  \/ \E r \in Reqs : RRStore(r) /\ Quiet
  \/ \E r \in Reqs : Lookup(r) /\ Quiet
  \/ \E r \in Reqs : IncLoad(r) /\ Quiet
  \/ \E r \in Reqs : IncCas(r) /\ Quiet
  \/ \E r \in Reqs : Acquired(r) /\ Quiet
  \/ \E r \in Reqs : Cancel(r) /\ Quiet
  \/ \E r \in Reqs : ForwardOK(r) /\ Quiet
  \/ \E r \in Reqs : ForwardError(r) /\ Quiet
  \/ \E r \in Reqs : ErrorHandler(r) /\ Quiet
  \/ \E r \in Reqs : GetNextPeerAdd(r) /\ Quiet
  \/ \E r \in Reqs : GetNextPeer(r) /\ Quiet
  \/ \E r \in Reqs : GetNextProxy(r) /\ Quiet
  \/ \E cfg \in Cfgs : AddBackend(cfg) /\ Quiet
  \/ \E u \in URLs \cup {BadURL} : RemoveBackend(u) /\ Quiet
  \/ \E configs \in CfgLists : UpdateBackends(configs) /\ Quiet
  \/ \E u \in URLs, alive \in BOOLEAN : MarkBackendStatus(u, alive) /\ Quiet

Spec == Init /\ [][Next]_vars

(* ------------------------- claims under Spec -------------------------- *)
\* the backend can take one more connection right now
Eligible(b) == b.Alive /\ b.ConnectionCount < b.MaxConnections

\* request r takes a step of its own
Moves(r) == req'[r].pc # req[r].pc

\* C1: every backend's connection count stays between 0 and its
\* MaxConnections in every reachable state.
C1_CountWithinMax ==
  \A i \in 1..Len(heap) :
    /\ 0 <= heap[i].ConnectionCount
    /\ heap[i].ConnectionCount <= heap[i].MaxConnections

\* C2: the error handler re-dispatches one request through pool selection at
\* most 3 times.
C2_AtMostThreeRetries == \A r \in Reqs : req[r].hops <= RetryLimit

\* C3: when no backend is eligible (empty pool, all dead, or all alive ones
\* full), selection returns nothing and the request is answered 503 without
\* an upstream being contacted.  For NextServer the backends are the servers it
\* read, for GetNextPeer the list under its read lock.
C3_NoEligibleGives503 ==
  [][\A r \in Reqs :
       /\ (req[r].pc = "idle" /\ Len(backends) = 0 /\ Moves(r))
            => (req'[r].pc = "done" /\ req'[r].resp = 503)
       /\ (req[r].pc = "rr_store" /\ Moves(r)
           /\ \A i \in 1..Len(req[r].snap) : ~Eligible(req[r].snap[i]))
            => (req'[r].pc = "done" /\ req'[r].resp = 503)
       /\ (req[r].pc = "np_lock" /\ Moves(r)
           /\ \A i \in 1..Len(backends) : ~Eligible(heap[backends[i]]))
            => (req'[r].pc = "done" /\ req'[r].resp = 503)]_vars

\* C4: a backend returned by selection is alive and below MaxConnections at
\* the moment it is selected: by NextServer among the servers it read, by
\* GetNextPeer (the retry's selection) in the pool under its read lock.
C4_SelectedIsEligible ==
  [][\A r \in Reqs :
       /\ (req[r].pc = "rr_store" /\ req'[r].pc = "lookup")
            => \E i \in 1..Len(req[r].snap) :
                 req[r].snap[i].URL = req'[r].srv /\ Eligible(req[r].snap[i])
       /\ (req[r].pc = "np_lock" /\ req'[r].pc = "np_inc")
            => Eligible(heap[req'[r].px])]_vars

\* C5: once every request has completed, every backend's connection count is
\* back to 0 (each acquired slot was released exactly once).
C5_AllSlotsReleased ==
  (\A r \in Reqs : req[r].pc = "done")
    => \A i \in 1..Len(heap) : heap[i].ConnectionCount = 0

\* the step in which r's forward to req[r].px fails with a transport error
\* and the pool's ErrorHandler has made its mark
ForwardFails(r) == req[r].pc = "fwd" /\ req'[r].pc = "eh"

InPool(b) == \E i \in 1..Len(backends) : backends[i] = b

\* C7: when a forward to a backend of the pool fails, that backend is not
\* alive before any retry selection happens, and a backend that is not alive
\* becomes alive again only by a MarkBackendStatus(url, true).
C7_FailedBackendMarked ==
  [][/\ \A r \in Reqs :
          (ForwardFails(r) /\ InPool(req[r].px)) => ~heap'[req[r].px].Alive
     /\ \A i \in 1..Len(heap) :
          (~heap[i].Alive /\ heap'[i].Alive)
            => \E u \in URLs : heap' = MarkedHeap(heap, backends, u, TRUE)]_vars

\* C8: when the error handler runs for a request whose retry counter has
\* reached 3, the request is answered 503.
C8_ExhaustedGives503 ==
  [][\A r \in Reqs :
       (req[r].pc = "eh" /\ GetRetryFromContext(r) >= RetryLimit
        /\ req'[r].pc # "eh")
         => req'[r].resp = 503]_vars

(* ------------- SpecCAS: concurrent IncrementConnections --------------- *)
\* one backend whose count starts anywhere from 0 to one above its
\* MaxConnections (GetNextProxy can leave it there), and NumCallers callers
\* each about to call IncrementConnections on it
InitCAS ==
  /\ \E m \in 0..CasCap : \E c0 \in 0..(m + 1) :
       /\ heap = <<[URL |-> 1, Alive |-> TRUE, Weight |-> 1, CurrentWeight |-> 0,
                    ConnectionCount |-> c0, MaxConnections |-> m, EH |-> "pool"]>>
       /\ start = c0
  /\ backends = <<1>>
  /\ current = 0
  /\ maxConnections = DefaultMaxConnections
  /\ req = [c \in Callers |-> [NewReq(0) EXCEPT !.pc = "inc_load", !.b0 = 1]]
  /\ picks = <<>>
  /\ op = NoCall
  /\ NoOthers

NextCAS ==
  \/ \E c \in Callers : IncLoad(c) /\ Quiet
  \/ \E c \in Callers : IncCas(c) /\ Quiet

SpecCAS == InitCAS /\ [][NextCAS]_vars

Returned(c) == req[c].pc = "inc_ret"

Successes == Cardinality({c \in Callers : Returned(c) /\ req[c].ok})

\* the capacity left when the callers started
Remaining ==
  IF start < heap[1].MaxConnections THEN heap[1].MaxConnections - start ELSE 0

\* C6: in any interleaving of IncrementConnections calls on one backend, the
\* count is the starting count plus one per call that returned true, a call
\* returns true iff the count it read and raised was below MaxConnections,
\* the successes never exceed the capacity that was left, and a call is never
\* blocked (its load can always run; at capacity it returns false at once).
C6_TryAcquire ==
  /\ heap[1].ConnectionCount = start + Successes
  /\ Successes <= Remaining
  /\ \A c \in Callers :
       /\ Returned(c) => (req[c].ok <=> req[c].ld < heap[1].MaxConnections)
       /\ req[c].pc = "inc_load" => ENABLED IncLoad(c)

\* one caller got the last slot after losing a race, another was turned away
C6_Witness ==
  /\ start < heap[1].MaxConnections
  /\ heap[1].ConnectionCount = heap[1].MaxConnections
  /\ \E c, d \in Callers :
       /\ Returned(c) /\ req[c].ok /\ req[c].ld > start
       /\ Returned(d) /\ ~req[d].ok

(* --------------- SpecRR: selections one after another ----------------- *)
\* a pool of up to NumRR backends, each alive or not and full or not, and a
\* cursor; one caller makes selections one after another, each either a
\* RoundRobin.NextServer or a GetNextPeer, and nothing else happens
InitRR ==
  /\ \E n \in 0..NumRR : \E alive \in [1..n -> BOOLEAN], full \in [1..n -> BOOLEAN] :
       /\ heap = [i \in 1..n |->
                    [URL |-> i, Alive |-> alive[i], Weight |-> 1, CurrentWeight |-> 0,
                     ConnectionCount |-> IF full[i] THEN 1 ELSE 0,
                     MaxConnections |-> 1, EH |-> "pool"]]
       /\ backends = [i \in 1..n |-> i]
  /\ current \in 0..MaxStart
  /\ maxConnections = DefaultMaxConnections
  /\ req = [r \in {1} |-> NewReq(0)]
  /\ picks = <<>>
  /\ start = 0
  /\ op = NoCall
  /\ NoOthers

\* the caller's next selection begins
NextCall(r) ==
  /\ req[r].pc \in {"lookup", "np_inc", "done"}
  /\ Len(picks) < MaxPicks
  /\ \E pc \in {"idle", "np_add"} : Set(r, [NewReq(0) EXCEPT !.pc = pc])
  /\ UNCHANGED <<pool, picks, start, op, others>>

\* the URL a selection step has returned, BadURL for nil
Picked(r) ==
  IF req'[r].pc = "lookup" THEN req'[r].srv
  ELSE IF req'[r].pc = "np_inc" THEN heap[req'[r].px].URL
  ELSE BadURL

NextRR ==
  \/ Dispatch(1) /\ Quiet
  \/ RRLoad(1) /\ Quiet
  \/ RRStore(1) /\ picks' = Append(picks, Picked(1)) /\ UNCHANGED <<start, op, others>>
  \/ GetNextPeerAdd(1) /\ Quiet
  \/ GetNextPeer(1) /\ picks' = Append(picks, Picked(1)) /\ UNCHANGED <<start, op, others>>
  \/ NextCall(1)

SpecRR == InitRR /\ [][NextRR]_vars

AllEligible == \A i \in 1..Len(backends) : Eligible(heap[backends[i]])

TimesPicked(u, from, len) ==
  Cardinality({j \in from..(from + len - 1) : picks[j] = u})

\* C9: with N backends all alive and below capacity and no failures, every
\* window of k*N consecutive selections made one after another chooses each
\* backend exactly k times.
C9_EvenSplit ==
  (Len(backends) > 0 /\ AllEligible) =>
    \A k \in 1..MaxPicks : \A from \in 1..Len(picks) :
      (from + k * Len(backends) - 1 <= Len(picks)) =>
        \A i \in 1..Len(backends) :
          TimesPicked(heap[backends[i]].URL, from, k * Len(backends)) = k

\* three full rounds over the largest pool have been made (9 picks over 3)
C9_Witness ==
  /\ Len(backends) = NumRR
  /\ AllEligible
  /\ Len(picks) >= 3 * NumRR

\* the 0-based indices of the servers NextServer may return
EligibleIdx(servers) == {j \in 0..(Len(servers) - 1) : Eligible(servers[j + 1])}

\* how far index j is after (c + 1) mod n in the cyclic order
CyclicDist(c, j, n) == (j + n - ((c + 1) % n)) % n

\* C10: NextServer with cursor value c over N > 0 backends returns the backend
\* at the first index in the cyclic order (c+1) mod N, (c+2) mod N, ... that
\* is alive and can accept a connection; it returns nothing iff the pool is
\* empty or no backend is both alive and capacity-available.
C10_FirstEligibleAfterCursor ==
  [][\A r \in DOMAIN req :
       /\ (req[r].pc = "idle" /\ Moves(r))
            => (req'[r].pc = "done" <=> Len(backends) = 0)
       /\ (req[r].pc = "rr_store" /\ Moves(r))
            => LET servers == req[r].snap
                   E == EligibleIdx(servers)
               IN IF E = {}
                    THEN req'[r].pc = "done"
                    ELSE /\ req'[r].pc = "lookup"
                         /\ \E j \in E :
                              /\ \A k \in E : CyclicDist(req[r].cur, j, Len(servers))
                                               <= CyclicDist(req[r].cur, k, Len(servers))
                              /\ req'[r].srv = servers[j + 1].URL]_vars

\* NextServer has passed over the backend right after the cursor, which was
\* not eligible, and returned a later one
C10_Witness ==
  /\ req[1].pc = "lookup"
  /\ Len(backends) = NumRR
  /\ ~Eligible(heap[backends[(current % Len(backends)) + 1]])
  /\ req[1].srv # heap[backends[(current % Len(backends)) + 1]].URL

(* ------------ SpecPool: the calls that change a pool ------------------ *)
\* BackendConfig values with and without a weight; max_connections is left
\* unset here, and so is the weight next to a URL that does not parse (it is
\* never read)
Weights == 0..MaxWeight

PoolCfgs ==
  {cfg \in [URL : URLs \cup {BadURL}, Weight : Weights, MaxConnections : {0}] :
     cfg.URL = BadURL => cfg.Weight = 0}

\* the lists UpdateBackends is given; it returns at the first URL that does
\* not parse, so nothing follows such a URL here
PoolCfgLists ==
  {configs \in UNION {[1..n -> PoolCfgs] : n \in 0..MaxCfgLen} :
     \A i \in 1..Len(configs) : configs[i].URL = BadURL => i = Len(configs)}

\* the backends a caller can hold a reference to through the pool
Members == {backends[i] : i \in 1..Len(backends)}

\* AddBackend: url.Parse failed, return err
AddBackendErr(cfg) == cfg.URL = BadURL

\* RemoveBackend: url.Parse failed, or errors.New("backend not found")
RemoveBackendErr(u) == u = BadURL \/ FirstIndex(heap, backends, u) = 0

\* UpdateBackends: url.Parse failed on some config, return err
UpdateBackendsErr(configs) == ~UpdateLoop(configs, 1, backends, heap, <<>>).ok

\* SetCurrentWeight: b.CurrentWeight = weight
SetCurrentWeight(b, weight) ==
  /\ heap' = [heap EXCEPT ![b].CurrentWeight = weight]
  /\ UNCHANGED <<backends, current, maxConnections, req>>

\* DecrementConnections: atomic.AddInt32(&b.ConnectionCount, -1)
DecrementConnections(b) ==
  /\ heap[b].ConnectionCount > -MaxUnder
  /\ heap' = Released(heap, b)
  /\ UNCHANGED <<backends, current, maxConnections, req>>

\* GetNextProxy's atomic.AddInt32(&backend.ConnectionCount, 1) on the backend
\* GetNextPeer gave it
ProxyConnection(b) ==
  /\ heap[b].ConnectionCount < MaxCap
  /\ heap' = [heap EXCEPT ![b].ConnectionCount = @ + 1]
  /\ UNCHANGED <<backends, current, maxConnections, req>>

\* op remembers the call a step made
Called(name, arg, err) ==
  /\ op' = [name |-> name, arg |-> arg, err |-> err]
  /\ UNCHANGED <<picks, start, others>>

InitPool ==
  /\ NewServerPool
  /\ req = [r \in {1} |-> NewReq(0)]
  /\ picks = <<>>
  /\ start = 0
  /\ op = NoCall
  /\ NoOthers

NextPool ==
  \/ \E cfg \in PoolCfgs :
       AddBackend(cfg) /\ Called("AddBackend", cfg, AddBackendErr(cfg))
  \/ \E u \in URLs \cup {BadURL} :
       RemoveBackend(u) /\ Called("RemoveBackend", u, RemoveBackendErr(u))
  \/ \E configs \in PoolCfgLists :
       UpdateBackends(configs)
         /\ Called("UpdateBackends", configs, UpdateBackendsErr(configs))
  \/ \E u \in URLs, alive \in BOOLEAN :
       MarkBackendStatus(u, alive) /\ Called("MarkBackendStatus", <<>>, FALSE)
  \/ \E b \in Members :
       ProxyConnection(b) /\ Called("GetNextProxy", <<>>, FALSE)

SpecPool == InitPool /\ [][NextPool]_vars

(* ------------- SpecReload: reloads of a pool in use ------------------- *)
\* configs whose URLs all parse
ValidCfgs == {cfg \in PoolCfgs : cfg.URL # BadURL}

ValidCfgLists ==
  {configs \in PoolCfgLists : \A i \in 1..Len(configs) : configs[i] \in ValidCfgs}

\* backends are added and reloaded while probers mark them, requests are
\* proxied to them and a weighted policy moves their current weight
NextReload ==
  \/ \E cfg \in ValidCfgs :
       AddBackend(cfg) /\ Called("AddBackend", cfg, AddBackendErr(cfg))
  \/ \E configs \in ValidCfgLists :
       UpdateBackends(configs)
         /\ Called("UpdateBackends", configs, UpdateBackendsErr(configs))
  \/ \E u \in URLs, alive \in BOOLEAN :
       MarkBackendStatus(u, alive) /\ Called("MarkBackendStatus", <<>>, FALSE)
  \/ \E b \in Members, w \in Weights :
       SetCurrentWeight(b, w) /\ Called("SetCurrentWeight", <<>>, FALSE)
  \/ \E b \in Members :
       ProxyConnection(b) /\ Called("GetNextProxy", <<>>, FALSE)

SpecReload == InitPool /\ [][NextReload]_vars

(* ------------------ claims under SpecPool and SpecReload -------------- *)
\* the step is a call of the named operation (op' is the record of that call)
Calls(name) == op'.name = name

\* the first backend of the pool, before the step, whose URL is u (0: none)
OldWith(u) ==
  LET S == {i \in 1..Len(backends) : heap[backends[i]].URL = u}
  IN IF S = {} THEN NoBackend
     ELSE backends[CHOOSE i \in S : \A j \in S : i <= j]

\* the weight the last entry of configs with URL u names
LastWeight(configs, u) ==
  LET S == {k \in 1..Len(configs) : configs[k].URL = u}
  IN configs[CHOOSE k \in S : \A j \in S : j <= k].Weight

\* what a successful UpdateBackends(configs) step leaves: one backend per
\* entry, in the order of the entries; an entry whose URL the pool had is the
\* pool's first backend with that URL, with its count, alive flag and
\* current_weight as they were, and with weight either as it was
\* (keepsWeight) or as the last entry for that URL names it; any other entry
\* is a backend of its own, alive, with count 0
Reloaded(configs, keepsWeight) ==
  /\ Len(backends') = Len(configs)
  /\ \A k \in 1..Len(configs) :
       LET b == backends'[k]
           u == configs[k].URL
       IN /\ heap'[b].URL = u
          /\ IF OldWith(u) # NoBackend
               THEN /\ b = OldWith(u)
                    /\ heap'[b].ConnectionCount = heap[b].ConnectionCount
                    /\ heap'[b].Alive = heap[b].Alive
                    /\ heap'[b].CurrentWeight = heap[b].CurrentWeight
                    /\ heap'[b].Weight = IF keepsWeight THEN heap[b].Weight
                                         ELSE LastWeight(configs, u)
               ELSE /\ b > Len(heap)
                    /\ heap'[b].Alive
                    /\ heap'[b].ConnectionCount = 0
                    /\ \A j \in 1..Len(configs) : j # k => backends'[j] # b

\* C11 as stated: after UpdateBackends(configs) the pool's backends are the
\* configured URLs in config order; a URL already present is the same backend
\* object keeping its connection count, alive flag, weight and
\* current_weight; a new URL is a new backend, alive, count 0; the others are
\* dropped.
C11_ReloadKeepsWeights ==
  [][(Calls("UpdateBackends") /\ ~op'.err) => Reloaded(op'.arg, TRUE)]_vars

\* C11 amended: as above, except that a kept backend's weight becomes the
\* weight its (last) config entry names; connection count, alive flag and
\* current_weight are kept.
C11_ReloadTakesConfigWeight ==
  [][(Calls("UpdateBackends") /\ ~op'.err) => Reloaded(op'.arg, FALSE)]_vars

\* a reload has kept a backend that is down, busy and mid-rotation, given it
\* the weight of its entry, and put a new backend in front of it
C11_Witness ==
  /\ op.name = "UpdateBackends" /\ ~op.err
  /\ backends = <<2, 1>>
  /\ ~heap[1].Alive /\ heap[1].ConnectionCount = 1 /\ heap[1].CurrentWeight = 1
  /\ heap[1].EH = "pool"
  /\ op.arg[2].Weight = 1 /\ heap[1].Weight = 1
  /\ heap[2].EH = "default"

\* C12: UpdateBackends applied a second time with the same list leaves the
\* pool as the first application left it: the same backend objects in the
\* same order with the same connection counts and alive flags, for every
\* list, lists that repeat a URL included.
C12_ReloadIdempotent ==
  [][(op.name = "UpdateBackends" /\ Calls("UpdateBackends") /\ op'.arg = op.arg)
       => /\ backends' = backends
          /\ \A b \in Members :
               /\ heap'[b].ConnectionCount = heap[b].ConnectionCount
               /\ heap'[b].Alive = heap[b].Alive]_vars

\* C13: when UpdateBackends returns an error the pool is as it was before the
\* call: the same list in the same order, and every backend's fields
\* (weight, alive flag, counters) unchanged.
C13_FailedReloadChangesNothing ==
  [][(Calls("UpdateBackends") /\ op'.err)
       => /\ backends' = backends
          /\ \A b \in Members : heap'[b] = heap[b]]_vars

\* C14: AddBackend with a URL that parses appends exactly one backend at the
\* end of the list, alive and with connection count 0, and leaves the
\* backends that were there, their order and their state as they were; with
\* a URL that does not parse it returns an error and the pool is unchanged.
C14_AddAppendsOne ==
  [][Calls("AddBackend") =>
       IF op'.arg.URL # BadURL
         THEN /\ ~op'.err
              /\ Len(backends') = Len(backends) + 1
              /\ \A i \in 1..Len(backends) : backends'[i] = backends[i]
              /\ LET b == backends'[Len(backends')]
                 IN /\ b \notin 1..Len(heap)
                    /\ heap'[b].URL = op'.arg.URL
                    /\ heap'[b].Alive
                    /\ heap'[b].ConnectionCount = 0
              /\ \A b \in 1..Len(heap) : heap'[b] = heap[b]
              /\ UNCHANGED <<current, maxConnections>>
         ELSE op'.err /\ UNCHANGED pool]_vars

\* a backend has been added behind one that is down and busy
C14_Witness ==
  /\ op.name = "AddBackend" /\ ~op.err
  /\ backends = <<1, 2>>
  /\ ~heap[1].Alive /\ heap[1].ConnectionCount = 1
  /\ heap[2].URL = op.arg.URL /\ heap[2].Alive /\ heap[2].ConnectionCount = 0

\* C15: RemoveBackend(url) takes out only the first backend whose URL is url
\* and keeps the order and the state of all the others; when no backend has
\* that URL, or url does not parse, it returns an error and the pool is
\* unchanged.
C15_RemoveFirstOnly ==
  [][Calls("RemoveBackend") =>
       LET S == {i \in 1..Len(backends) :
                   op'.arg # BadURL /\ heap[backends[i]].URL = op'.arg}
       IN IF S # {}
            THEN /\ ~op'.err
                 /\ Len(backends') = Len(backends) - 1
                 /\ \E p \in S :
                      /\ \A j \in S : p <= j
                      /\ \A i \in 1..Len(backends') :
                           backends'[i] = IF i < p THEN backends[i]
                                          ELSE backends[i + 1]
                 /\ heap' = heap
                 /\ UNCHANGED <<current, maxConnections>>
            ELSE op'.err /\ UNCHANGED pool]_vars

\* of two backends with the same URL the first has been removed and the
\* second, busy, is still there
C15_Witness ==
  /\ op.name = "RemoveBackend" /\ ~op.err
  /\ backends = <<2>>
  /\ heap[1].URL = op.arg /\ heap[2].URL = op.arg
  /\ heap[2].ConnectionCount = 1

\* C17: every backend in a pool has weight >= 1: a backend configured without
\* a weight (weight 0), through AddBackend or UpdateBackends, gets weight 1.
C17_WeightAtLeastOne == \A b \in Members : heap[b].Weight >= 1

(* ------------------- more claims under Spec --------------------------- *)
\* C16: every backend in a pool, added by AddBackend or created by
\* UpdateBackends, has MaxConnections > 0: a configured max_connections of 0
\* becomes the pool's default max_connections.
C16_MaxConnectionsPositive == \A b \in Members : heap[b].MaxConnections > 0

\* a step of a selection operation: RoundRobin.NextServer (with its
\* GetBackends), GetNextPeer or GetNextProxy
Selects(r) ==
  /\ req[r].pc \in {"idle", "rr_load", "rr_store", "np_add", "np_lock", "np_inc"}
  /\ Moves(r)

\* C19: a backend's alive flag changes only through MarkBackendStatus (called
\* by a prober or by the dispatcher's error handling); the selection
\* operations NextServer, GetNextPeer, GetNextProxy and GetBackends change no
\* backend's alive flag and do not change the pool's list.
C19_AliveOnlyByMark ==
  [][/\ (\E b \in 1..Len(heap) : heap'[b].Alive # heap[b].Alive)
          => /\ \E u \in URLs, alive \in BOOLEAN :
                  heap' = MarkedHeap(heap, backends, u, alive)
             /\ backends' = backends
     /\ \A r \in Reqs :
          Selects(r) => /\ backends' = backends
                        /\ \A b \in 1..Len(heap) : heap'[b].Alive = heap[b].Alive
    ]_vars

\* GetNextPeer has returned a backend that is marked down, and it is still
\* marked down
C19_Witness ==
  \E r \in Reqs :
    /\ req[r].pc = "np_inc"
    /\ ~heap[req[r].px].Alive
    /\ Len(backends) = 2

(* -------------- SpecRel: acquire and release on a pool ---------------- *)
\* the pools SpecRR starts from; calls of DecrementConnections and of
\* GetNextProxy's increment come in any order on any backend of the pool
NextRel ==
  \/ \E b \in Members :
       DecrementConnections(b) /\ Called("DecrementConnections", b, FALSE)
  \/ \E b \in Members :
       ProxyConnection(b) /\ Called("GetNextProxy", b, FALSE)

SpecRel == InitRR /\ [][NextRel]_vars

\* C18: DecrementConnections on a backend whose connection count is 0 leaves
\* the count at 0 rather than making it negative.
C18_ReleaseSaturates ==
  [][\A b \in Members :
       (Calls("DecrementConnections") /\ op'.arg = b
        /\ heap[b].ConnectionCount = 0)
         => heap'[b].ConnectionCount = 0]_vars

(* ------------- SpecAdmin: the admin API's /api/backends --------------- *)
\* a query parameter that is absent or empty: Query().Get gives ""
NoName == 0
NoPath == 0
\* var location *service.LocationInfo before anything is assigned to it
NoLocation == 0

\* the paths a location or the `path` parameter can have, "" included
Paths == 0..NumPath

\* what GetServiceByName hands the handler: nil, or a service whose Locations
\* have these paths (each location has a ServerPool of its own)
Services ==
  {[found |-> FALSE, Locations |-> <<>>]}
    \cup {[found |-> TRUE, Locations |-> locs] :
            locs \in UNION {[1..n -> Paths] : n \in 0..MaxLocs}}

Methods == {"GET", "POST", "DELETE", "PUT"}

\* a request body: one the JSON decoder rejects, or one carrying a url
Bodies ==
  {[decodes |-> FALSE, URL |-> BadURL]}
    \cup {[decodes |-> TRUE, URL |-> u] : u \in URLs \cup {BadURL}}

\* the requests; what the handler never reads is left at one value: the
\* registry when no service is named, the body of a GET or PUT
AdminRequests ==
  {q \in [service_name : {NoName, 1}, srvc : Services, path : Paths,
          method : Methods, body : Bodies] :
     /\ q.service_name = NoName => ~q.srvc.found
     /\ q.method \in {"GET", "PUT"} => ~q.body.decodes}

\* for _, loc := range srvc.Locations { if loc.Path == serviceLocation {...; break} }
MatchLocation(locs, serviceLocation) ==
  LET S == {i \in 1..Len(locs) : locs[i] = serviceLocation}
  IN IF S = {} THEN NoLocation ELSE CHOOSE i \in S : \A j \in S : i <= j

\* the if / else after the loop: the location the method switch then works
\* on, or the error the handler answers with instead
Route(locs, serviceLocation) ==
  IF MatchLocation(locs, serviceLocation) = NoLocation /\ serviceLocation = NoPath
    THEN IF Len(locs) = 1
           THEN [location |-> 1, status |-> 0, msg |-> ""]
           ELSE [location |-> NoLocation, status |-> 400,
                 msg |-> "location parameter is required for services with multiple locations"]
    ELSE [location |-> NoLocation, status |-> 404, msg |-> "Location not found"]

\* the response written, and the pool call made on which location
Answer(q, status, msg, location, call) ==
  /\ op' = [name |-> "handleBackends", arg |-> q, err |-> status >= 400,
            res |-> [status |-> status, msg |-> msg,
                     location |-> location, call |-> call]]
  /\ UNCHANGED <<picks, start, others>>

\* the BackendConfig a POST body decodes into
BodyConfig(body) == [URL |-> body.URL, Weight |-> 0, MaxConnections |-> 0]

\* the method switch; the pool variables are the ServerPool of Locations[0],
\* the only location the code before the switch lets through
OnLocation(q, location) ==
  IF q.method = "GET"
    THEN Answer(q, 200, "", location, "GetBackends") /\ UNCHANGED <<pool, req>>
  ELSE IF q.method = "POST"
    THEN IF ~q.body.decodes
           THEN Answer(q, 400, "decode", location, "none") /\ UNCHANGED <<pool, req>>
           ELSE /\ AddBackend(BodyConfig(q.body))
                /\ IF AddBackendErr(BodyConfig(q.body))
                     THEN Answer(q, 500, "AddBackend", location, "AddBackend")
                     ELSE Answer(q, 201, "", location, "AddBackend")
  ELSE IF q.method = "DELETE"
    THEN IF ~q.body.decodes
           THEN Answer(q, 400, "decode", location, "none") /\ UNCHANGED <<pool, req>>
           ELSE /\ RemoveBackend(q.body.URL)
                /\ IF RemoveBackendErr(q.body.URL)
                     THEN Answer(q, 500, "RemoveBackend", location, "RemoveBackend")
                     ELSE Answer(q, 204, "", location, "RemoveBackend")
  ELSE Answer(q, 405, "Method not allowed", location, "none")
         /\ UNCHANGED <<pool, req>>

handleBackends(q) ==
  IF q.service_name = NoName
    THEN Answer(q, 400, "service_name is required", NoLocation, "none")
           /\ UNCHANGED <<pool, req>>
  ELSE IF ~q.srvc.found
    THEN Answer(q, 404, "Service not found", NoLocation, "none")
           /\ UNCHANGED <<pool, req>>
  ELSE LET route == Route(q.srvc.Locations, q.path)
       IN IF route.location = NoLocation
            THEN Answer(q, route.status, route.msg, NoLocation, "none")
                   /\ UNCHANGED <<pool, req>>
            ELSE OnLocation(q, route.location)

NextAdmin == \E q \in AdminRequests : handleBackends(q)

SpecAdmin == InitPool /\ [][NextAdmin]_vars

\* C20: for a /api/backends request that names an existing service and whose
\* `path` equals the path of one of its locations, the handler works on that
\* location's pool: GET returns its backends, POST adds the backend and
\* answers 201, DELETE removes it and answers 204 (500 when the pool call
\* fails, 400 when the body does not decode); and "Location not found" (404)
\* is answered only when no location has that path.
C20_MatchedLocationServed ==
  (op.name = "handleBackends" /\ op.arg.service_name # NoName /\ op.arg.srvc.found)
    => LET q == op.arg
           m == MatchLocation(q.srvc.Locations, q.path)
       IN /\ m # NoLocation =>
               /\ op.res.location = m
               /\ q.method = "GET" =>
                    op.res.status = 200 /\ op.res.call = "GetBackends"
               /\ (q.method = "POST" /\ q.body.decodes) =>
                    op.res.status \in {201, 500} /\ op.res.call = "AddBackend"
               /\ (q.method = "DELETE" /\ q.body.decodes) =>
                    op.res.status \in {204, 500} /\ op.res.call = "RemoveBackend"
          /\ op.res.msg = "Location not found" => m = NoLocation

\* C21: a /api/backends request that gives no `path` for a service with more
\* than one location is answered 400, whatever the method, and no pool call
\* is made for it.
C21_NoPathManyLocations400 ==
  (op.name = "handleBackends" /\ op.arg.service_name # NoName /\ op.arg.srvc.found
   /\ op.arg.path = NoPath /\ Len(op.arg.srvc.Locations) > 1)
    => /\ op.res.status = 400
       /\ op.res.location = NoLocation
       /\ op.res.call = "none"

-----------------------------------------------------------------------------
\* The entry points: cmd/main.go and load-balancer/main.go.  SpecMain follows
\* one run of either binary from config.Load to the end of the process.  The
\* server package is not part of the sources: what srv.Start and srv.Shutdown
\* return is an input.

\* the deadline of the shutdown context, in seconds
ShutdownTimeout == 15

Binaries == {"cmd", "load-balancer"}

\* the context handed to srv.Shutdown
NoCtx == [parent |-> "none", timeout |-> 0]
\* context.WithTimeout(context.Background(), 15*time.Second)
FreshCtx == [parent |-> "background", timeout |-> ShutdownTimeout]
\* the root context itself
RootCtx == [parent |-> "root", timeout |-> 0]

\* main at its first statement.  exit: "running", "ok" (main returned: exit
\* code 0) or "fatal" (log.Fatalf: exit code 1)
NewMain(bin) ==
  [bin |-> bin, pc |-> "load", sig |-> 0, errChan |-> 0, cancelled |-> FALSE,
   watcher |-> "none", srv |-> "none", trigger |-> "none", shutdowns |-> 0,
   shutdownCtx |-> NoCtx, cancelledAtShutdown |-> FALSE, shutdownErr |-> FALSE,
   exit |-> "running"]

Running == main.exit = "running"

MainStep(m) == main' = m /\ UNCHANGED <<pool, req, picks, start, op, mu, health>>

\* log.Fatalf
Fatalf == [main EXCEPT !.pc = "exited", !.exit = "fatal"]

\* config.Load: a failure ends the process
LoadConfig ==
  /\ Running /\ main.pc = "load"
  /\ \E err \in BOOLEAN :
       MainStep(IF err THEN Fatalf ELSE [main EXCEPT !.pc = "new"])

\* server.NewServer (cmd) or server.New (load-balancer): a failure ends the
\* process
NewServer ==
  /\ Running /\ main.pc = "new"
  /\ \E err \in BOOLEAN :
       MainStep(IF err THEN Fatalf ELSE [main EXCEPT !.pc = "watch"])

\* config.NewConfigWatcher: a failure is logged and main goes on
NewConfigWatcher ==
  /\ Running /\ main.pc = "watch"
  /\ \E err \in BOOLEAN :
       MainStep([main EXCEPT !.pc = "notify",
                             !.watcher = IF err THEN "failed" ELSE "running"])

\* signal.Notify(sigChan, SIGINT, SIGTERM)
Notify ==
  /\ Running /\ main.pc = "notify"
  /\ MainStep([main EXCEPT !.pc = "go"])

\* go func() { srv.Start() ... }(): the goroutine begins, main goes on to
\* its select
GoStart ==
  /\ Running /\ main.pc = "go"
  /\ MainStep([main EXCEPT !.pc = "select", !.srv = "running"])

\* what the goroutine does with an error of srv.Start: cmd sends it on
\* errChan (buffered, one place), load-balancer cancels the root context
StartError(m) ==
  IF m.bin = "cmd" THEN [m EXCEPT !.errChan = 1] ELSE [m EXCEPT !.cancelled = TRUE]

\* srv.Start returns an error before any shutdown was asked for: the server
\* failed to start
StartFails ==
  /\ Running /\ main.srv = "running"
  /\ MainStep(StartError([main EXCEPT !.srv = "failed"]))

\* srv.Start returns once srv.Shutdown was called, with an error or without
StartReturns ==
  /\ Running /\ main.srv = "stopping"
  /\ \E err \in BOOLEAN :
       MainStep(IF err THEN StartError([main EXCEPT !.srv = "closed"])
                       ELSE [main EXCEPT !.srv = "closed"])

\* SIGINT or SIGTERM arrives: signal.Notify puts it on sigChan when the
\* channel has room
Signal ==
  /\ Running /\ main.pc \notin {"load", "new", "watch", "notify"} /\ main.sig = 0
  /\ MainStep([main EXCEPT !.sig = 1])

\* the signal case of cmd's select without its cancel()
SignalCaseNoCancel(m) ==
  [m EXCEPT !.sig = 0, !.trigger = "signal", !.pc = "shutdown"]

\* case <-sigChan: cmd cancels the root context, load-balancer only logs
SignalCase(m) ==
  [m EXCEPT !.sig = 0, !.trigger = "signal", !.pc = "shutdown",
            !.cancelled = IF m.bin = "cmd" THEN TRUE ELSE m.cancelled]

\* case err := <-errChan (cmd only)
ErrorCase(m) == [m EXCEPT !.errChan = 0, !.trigger = "error", !.pc = "shutdown"]

\* case <-ctx.Done()
DoneCase(m) == [m EXCEPT !.trigger = "ctx", !.pc = "shutdown"]

\* the select of main: one of the ready cases is taken
Select ==
  /\ Running /\ main.pc = "select"
  /\ \/ main.sig = 1 /\ MainStep(SignalCase(main))
     \/ main.bin = "cmd" /\ main.errChan = 1 /\ MainStep(ErrorCase(main))
     \/ main.cancelled /\ MainStep(DoneCase(main))

\* the context main hands to srv.Shutdown
ShutdownCtx(m) == IF m.bin = "cmd" THEN FreshCtx ELSE RootCtx

\* srv.Shutdown is called
Shutdown ==
  /\ Running /\ main.pc = "shutdown"
  /\ MainStep([main EXCEPT !.pc = "in_shutdown",
                           !.shutdowns = @ + 1,
                           !.shutdownCtx = ShutdownCtx(main),
                           !.cancelledAtShutdown = main.cancelled,
                           !.srv = IF @ = "running" THEN "stopping" ELSE @])

\* srv.Shutdown returns, with or without an error (which is only logged);
\* main returns after its deferred calls, cancel() among them
ShutdownReturns ==
  /\ Running /\ main.pc = "in_shutdown"
  /\ \E err \in BOOLEAN :
       MainStep([main EXCEPT !.pc = "exited", !.exit = "ok", !.cancelled = TRUE,
                             !.shutdownErr = err,
                             !.watcher = IF @ = "running" THEN "closed" ELSE @])

InitMain ==
  /\ NewServerPool
  /\ req = [r \in {1} |-> NewReq(0)]
  /\ picks = <<>>
  /\ start = 0
  /\ op = NoCall
  /\ mu = NoLocks
  /\ health = NoProber
  /\ \E bin \in Binaries : main = NewMain(bin)

\* the steps of main itself
MainSteps ==
  \/ LoadConfig
  \/ NewServer
  \/ NewConfigWatcher
  \/ Notify
  \/ GoStart
  \/ Select
  \/ Shutdown
  \/ ShutdownReturns

NextMain ==
  \/ LoadConfig
  \/ NewServer
  \/ NewConfigWatcher
  \/ Notify
  \/ GoStart
  \/ StartFails
  \/ StartReturns
  \/ Signal
  \/ Select
  \/ Shutdown
  \/ ShutdownReturns

SpecMain == InitMain /\ [][NextMain]_vars

\* C22: when srv.Start has returned an error, the process does not end with
\* exit code 0.
C22_StartFailureExitsNonzero ==
  (main.srv = "failed" /\ main.exit # "running") => main.exit # "ok"

\* the scheduler lets main take its next step when it has one; srv.Shutdown
\* returns, at the latest when the deadline of its context expires
SpecMainLive == SpecMain /\ WF_vars(MainSteps)

\* one of the triggers of cmd's select is ready
Triggered ==
  /\ main.bin = "cmd" /\ main.pc = "select"
  /\ (main.sig = 1 \/ main.errChan = 1 \/ main.cancelled)

\* C29: in cmd/main.go a ready trigger (signal, srv.Start error, cancelled
\* root context) leads to the return of main after exactly one srv.Shutdown;
\* Shutdown is never called twice, it is given a fresh context with the
\* 15-second deadline, and after a signal the root context is already
\* cancelled when Shutdown is called.
C29_TriggerShutsDownOnce ==
  /\ [](main.bin = "cmd" =>
          /\ main.shutdowns <= 1
          /\ (main.shutdowns = 1 =>
                main.shutdownCtx = [parent |-> "background", timeout |-> 15])
          /\ (main.shutdowns = 1 /\ main.trigger = "signal" => main.cancelledAtShutdown)
          /\ (main.exit = "ok" => main.shutdowns = 1))
  /\ (Triggered ~> (main.exit = "ok" /\ main.shutdowns = 1))

C29_Witness ==
  /\ main.bin = "cmd" /\ main.exit = "ok" /\ main.shutdowns = 1
  /\ main.trigger = "signal" /\ main.cancelledAtShutdown
  /\ main.shutdownCtx.parent = "background"

-----------------------------------------------------------------------------
\* The health-check engine.  The sources hold only its configuration
\* (HealthCheck, Thresholds); the prober follows the specification's section
\* on the health-check engine.  SpecProbe follows one backend's prober.

\* thresholds are drawn from 1..MaxThreshold
MaxThreshold == 3
\* the probes of one run
MaxProbes == 6

\* Thresholds{Healthy, Unhealthy}
Thresholds == [Healthy : 1..MaxThreshold, Unhealthy : 1..MaxThreshold]

\* a prober at its start: both counters zero, no probe made
NewProber(th, alive) ==
  [on |-> TRUE, thresholds |-> th, alive |-> alive,
   successes |-> 0, failures |-> 0, hist |-> <<>>]

\* a prober whose failures do not reset the success counter
ProbeResultNoReset(h, ok) ==
  IF ok
    THEN [h EXCEPT !.successes = @ + 1, !.failures = 0,
                   !.alive = IF ~h.alive /\ h.successes + 1 >= h.thresholds.Healthy
                               THEN TRUE ELSE @,
                   !.hist = Append(@, ok)]
    ELSE [h EXCEPT !.failures = @ + 1,
                   !.alive = IF h.alive /\ h.failures + 1 >= h.thresholds.Unhealthy
                               THEN FALSE ELSE @,
                   !.hist = Append(@, ok)]

\* the prober after a probe with result ok
ProbeResult(h, ok) ==
  IF ok
    THEN [h EXCEPT !.successes = @ + 1, !.failures = 0,
                   !.alive = IF ~h.alive /\ h.successes + 1 >= h.thresholds.Healthy
                               THEN TRUE ELSE @,
                   !.hist = Append(@, ok)]
    ELSE [h EXCEPT !.failures = @ + 1, !.successes = 0,
                   !.alive = IF h.alive /\ h.failures + 1 >= h.thresholds.Unhealthy
                               THEN FALSE ELSE @,
                   !.hist = Append(@, ok)]

ProbeStep(h) == health' = h /\ UNCHANGED <<pool, req, picks, start, op, mu, main>>

\* one probe, successful or not
Probe ==
  /\ Len(health.hist) < MaxProbes
  /\ \E ok \in BOOLEAN : ProbeStep(ProbeResult(health, ok))

\* the dispatcher marks the backend not-alive on a forward error; the
\* counters stay with the prober
ForwardErrorMark ==
  /\ health.alive
  /\ ProbeStep([health EXCEPT !.alive = FALSE])

InitProbe ==
  /\ NewServerPool
  /\ req = [r \in {1} |-> NewReq(0)]
  /\ picks = <<>>
  /\ start = 0
  /\ op = NoCall
  /\ mu = NoLocks
  /\ main = NotRunning
  /\ \E th \in Thresholds, alive \in BOOLEAN : health = NewProber(th, alive)

NextProbe ==
  \/ Probe
  \/ ForwardErrorMark

SpecProbe == InitProbe /\ [][NextProbe]_vars

\* the probes made so far alternate: no two consecutive results are the same
Alternating(hist) == \A i \in 1..(Len(hist) - 1) : hist[i] # hist[i + 1]

\* C23: with thresholds healthy = 2 and unhealthy = 3, a probe of a run whose
\* probes alternate success and failure does not change the backend's alive
\* state, whether the backend is alive or not.
C23_AlternatingProbesKeepState ==
  [][(/\ health.thresholds = [Healthy |-> 2, Unhealthy |-> 3]
      /\ Len(health'.hist) = Len(health.hist) + 1
      /\ Alternating(health'.hist))
       => health'.alive = health.alive]_vars

C23_Witness ==
  /\ health.on
  /\ health.thresholds = [Healthy |-> 2, Unhealthy |-> 3]
  /\ Len(health.hist) = MaxProbes /\ Alternating(health.hist)
  /\ ~health.alive /\ health.successes = 1

-----------------------------------------------------------------------------
\* SpecSel: NumSel callers run RoundRobin.NextServer at the same time on a
\* pool whose list stays as it is, while backends are marked and connections
\* are counted.  start is the cursor before the first call.

NumSel == 2
Sels == 1..NumSel

InitSel ==
  /\ \E n \in 0..MaxObj : \E alive \in [1..n -> BOOLEAN] :
       /\ heap = [i \in 1..n |->
                    [URL |-> i, Alive |-> alive[i], Weight |-> 1, CurrentWeight |-> 0,
                     ConnectionCount |-> 0, MaxConnections |-> 1, EH |-> "pool"]]
       /\ backends = [i \in 1..n |-> i]
  /\ current \in 0..MaxStart
  /\ start = current
  /\ maxConnections = DefaultMaxConnections
  /\ req = [r \in Sels |-> NewReq(0)]
  /\ picks = <<>>
  /\ op = NoCall
  /\ NoOthers

NextSel ==
  \/ \E r \in Sels : Dispatch(r) /\ Quiet
  \/ \E r \in Sels : RRLoad(r) /\ Quiet
  \/ \E r \in Sels : RRStore(r) /\ Quiet
  \/ \E u \in URLs, alive \in BOOLEAN : MarkBackendStatus(u, alive) /\ Quiet
  \/ \E b \in 1..Len(heap) : ProxyConnection(b) /\ Quiet

SpecSel == InitSel /\ [][NextSel]_vars

\* the callers whose NextServer has stored the cursor
Stored == {r \in Sels : req[r].pc \in {"lookup", "done"}}

\* C24: on a non-empty pool the cursor is its initial value plus the number
\* of NextServer calls that have advanced it, in every interleaving, and no
\* two calls hold the same cursor value to compute their start index from.
C24_CursorAdvancesPerCall ==
  Len(backends) > 0 =>
    /\ current = start + Cardinality(Stored)
    /\ \A r, s \in Sels :
         (r # s /\ req[r].pc = "rr_store" /\ req[s].pc = "rr_store")
           => req[r].cur # req[s].cur

\* the callers that hold a snapshot
Holding == {r \in Sels : req[r].pc \in {"rr_load", "rr_store"}}

\* C25: a snapshot has one entry per pool backend in pool order, and each
\* entry shows the alive flag and the connection count the pool's backend has
\* now, also after a mark or a connection made since the snapshot was taken.
C25_SnapshotIsLive ==
  \A r \in Holding :
    /\ Len(req[r].snap) = Len(backends)
    /\ \A i \in 1..Len(backends) :
         /\ req[r].snap[i].URL = heap[backends[i]].URL
         /\ req[r].snap[i].Alive = heap[backends[i]].Alive
         /\ req[r].snap[i].ConnectionCount = heap[backends[i]].ConnectionCount

-----------------------------------------------------------------------------
\* heap h2 differs from heap h1 at most in the alive flag of backend b
OnlyAliveOf(h1, h2, b) ==
  /\ Len(h2) = Len(h1)
  /\ \A i \in 1..Len(h1) :
       \/ h2[i] = h1[i]
       \/ i = b /\ h2[i] = [h1[i] EXCEPT !.Alive = h2[i].Alive]

\* C30: when the request's context is already cancelled as a forward error is
\* handled, the ErrorHandler changes nothing but the alive flag of the backend
\* whose forward failed: it selects no backend (the cursor stays), increments
\* no connection count and writes no response.
C30_CancelledHandlerOnlyMarks ==
  [][\A r \in Reqs :
       /\ (req[r].pc = "fwd" /\ req'[r].pc = "eh" /\ req[r].cancelled)
            => /\ OnlyAliveOf(heap, heap', req[r].px)
               /\ UNCHANGED <<backends, current>>
       /\ (req[r].pc = "eh" /\ Moves(r) /\ req[r].cancelled)
            => /\ req'[r].pc = "done" /\ req'[r].resp = 0
               /\ req'[r].hops = req[r].hops
               /\ UNCHANGED <<backends, current>>
               /\ \A i \in 1..Len(heap) :
                    /\ heap'[i].Alive = heap[i].Alive
                    /\ heap'[i].ConnectionCount <= heap[i].ConnectionCount]_vars

-----------------------------------------------------------------------------
\* SpecLock: the pool's methods statement by statement, with ServerPool.mu
\* and Backend.mu, run by NumThreads goroutines at the same time.  A thread
\* makes one call; req[t] is its frame: the call (op, arg), the statement it
\* is at (pc) and its locals.  GetBackends is followed for the list it reads
\* (snap holds the backends it has visited); the values it copies are the
\* subject of SpecSel.

NumThreads == 2
\* the Backend objects a run allocates at most
MaxLockObj == 3
Threads == 1..NumThreads

\* ServerPool.mu; Backend.mu of heap object b is lock b
PoolLock == 0

NewThread ==
  [pc |-> "idle", op |-> "none", arg |-> 0, i |-> 0, n |-> 0, snap |-> <<>>,
   b |-> NoBackend, nxt |-> 0, nb |-> <<>>]

Go(t, f) == req' = [req EXCEPT ![t] = f]
At(t, pc) == req[t].pc = pc

\* neither the histories, the entry point nor the prober take part
Rest == UNCHANGED <<picks, start, op, main, health>>

(* sync.RWMutex: readers share, a writer excludes, and a Lock call that has
   to wait keeps new readers out *)
WriterOn(l) == \E h \in mu.held : h[2] = l /\ h[3] = "W"
WaitingOn(l) == \E w \in mu.waiting : w[2] = l
LockFree(l) == \A h \in mu.held : h[2] # l
HeldBy(t) == {h \in mu.held : h[1] = t}

RLock(t, l) ==
  /\ ~WriterOn(l) /\ ~WaitingOn(l)
  /\ mu' = [mu EXCEPT !.held = @ \cup {<<t, l, "R">>}]

RUnlock(t, l) == mu' = [mu EXCEPT !.held = @ \ {<<t, l, "R">>}]

\* Lock: taken at once when the lock is free (the thread goes on as f),
\* otherwise the call is registered and the thread waits where it is
Lock(t, l, f) ==
  IF LockFree(l)
    THEN /\ mu' = [held |-> mu.held \cup {<<t, l, "W">>},
                   waiting |-> mu.waiting \ {<<t, l>>}]
         /\ Go(t, f)
    ELSE /\ <<t, l>> \notin mu.waiting
         /\ mu' = [mu EXCEPT !.waiting = @ \cup {<<t, l>>}]
         /\ UNCHANGED req

Unlock(t, l) == mu' = [mu EXCEPT !.held = @ \ {<<t, l, "W">>}]

(* ------------------------------ the calls ------------------------------ *)
LockCfgs == {cfg \in Cfgs : cfg.MaxConnections = 0}
LockCfgLists ==
  {<<>>} \cup {<<cfg>> : cfg \in LockCfgs}
         \cup {<<[URL |-> 2, Weight |-> 1, MaxConnections |-> 0],
                 [URL |-> 1, Weight |-> 1, MaxConnections |-> 0]>>}

\* the calls a thread can make: name, argument, first statement
ThreadCalls ==
  {<<"GetNextPeer", 0, "np_add">>, <<"GetNextProxy", 0, "np_add">>,
   <<"GetBackends", 0, "gb_rlock">>}
  \cup {<<"ErrorHandler", [URL |-> u, alive |-> FALSE], "mk_rlock">> : u \in URLs}
  \cup {<<"MarkBackendStatus", [URL |-> u, alive |-> a], "mk_rlock">> :
          u \in URLs, a \in BOOLEAN}
  \cup {<<"IsAlive", b, "ia_rlock">> : b \in 1..Len(heap)}
  \cup {<<"IncrementConnections", b, "ic_load">> : b \in 1..Len(heap)}
  \cup {<<"DecrementConnections", b, "dc_add">> : b \in 1..Len(heap)}
  \cup {<<"AddBackend", cfg, "ad_parse">> : cfg \in LockCfgs}
  \cup {<<"RemoveBackend", u, "rm_lock">> : u \in URLs \cup {BadURL}}
  \cup {<<"UpdateBackends", configs, "up_lock">> : configs \in LockCfgLists}

\* a goroutine calls a method of the pool or of a backend
Call(t) ==
  /\ At(t, "idle")
  /\ \E c \in ThreadCalls : Go(t, [NewThread EXCEPT !.op = c[1], !.arg = c[2], !.pc = c[3]])
  /\ UNCHANGED <<pool, mu>> /\ Rest

(* ---------------- GetNextPeer, GetNextProxy, ErrorHandler -------------- *)
\* next := atomic.AddUint64(&s.current, 1)
PeerAdd(t) ==
  /\ At(t, "np_add")
  /\ current' = current + 1
  /\ Go(t, [req[t] EXCEPT !.pc = "np_rlock", !.nxt = current + 1])
  /\ UNCHANGED <<heap, backends, maxConnections, mu>> /\ Rest

\* GetNextPeer without its s.mu.RLock()
PeerNoRLock(t) ==
  /\ At(t, "np_rlock")
  /\ Go(t, [req[t] EXCEPT !.pc = "np_len"])
  /\ UNCHANGED <<pool, mu>> /\ Rest

\* s.mu.RLock()
PeerRLock(t) ==
  /\ At(t, "np_rlock")
  /\ RLock(t, PoolLock)
  /\ Go(t, [req[t] EXCEPT !.pc = "np_len"])
  /\ UNCHANGED pool /\ Rest

\* l := len(s.backends); if l == 0 { return nil }
PeerLen(t) ==
  /\ At(t, "np_len")
  /\ Go(t, [req[t] EXCEPT !.n = Len(backends), !.b = NoBackend,
                          !.pc = IF Len(backends) = 0 THEN "np_runlock" ELSE "np_elem"])
  /\ UNCHANGED <<pool, mu>> /\ Rest

\* return s.backends[next%uint64(l)]; an index beyond the list panics
PeerElem(t) ==
  /\ At(t, "np_elem")
  /\ LET idx == (req[t].nxt % req[t].n) + 1
     IN IF idx <= Len(backends)
          THEN Go(t, [req[t] EXCEPT !.pc = "np_runlock", !.b = backends[idx]])
          ELSE Go(t, [req[t] EXCEPT !.pc = "panic"])
  /\ UNCHANGED <<pool, mu>> /\ Rest

\* the deferred s.mu.RUnlock() and the return; GetNextProxy and the
\* ErrorHandler go on with the backend when there is one
PeerRUnlock(t) ==
  /\ At(t, "np_runlock")
  /\ RUnlock(t, PoolLock)
  /\ Go(t, [req[t] EXCEPT !.pc = IF req[t].op = "GetNextPeer" \/ req[t].b = NoBackend
                                   THEN "ret" ELSE "px_add"])
  /\ UNCHANGED pool /\ Rest

\* GetNextProxy: atomic.AddInt32(&backend.ConnectionCount, 1)
ProxyAdd(t) ==
  /\ At(t, "px_add")
  /\ heap' = [heap EXCEPT ![req[t].b].ConnectionCount = @ + 1]
  /\ Go(t, [req[t] EXCEPT !.pc = IF req[t].op = "ErrorHandler" THEN "fwd" ELSE "ret"])
  /\ UNCHANGED <<backends, current, maxConnections, mu>> /\ Rest

\* ErrorHandler: proxy.ServeHTTP(w, r), the request is forwarded again
Forward(t) ==
  /\ At(t, "fwd")
  /\ Go(t, [req[t] EXCEPT !.pc = "ret"])
  /\ UNCHANGED <<pool, mu>> /\ Rest

(* ----------------------------- GetBackends ----------------------------- *)
\* GetBackends without its s.mu.RLock()
GetBackendsNoRLock(t) ==
  /\ At(t, "gb_rlock")
  /\ Go(t, [req[t] EXCEPT !.pc = "gb_len"])
  /\ UNCHANGED <<pool, mu>> /\ Rest

\* s.mu.RLock()
GetBackendsRLock(t) ==
  /\ At(t, "gb_rlock")
  /\ RLock(t, PoolLock)
  /\ Go(t, [req[t] EXCEPT !.pc = "gb_len"])
  /\ UNCHANGED pool /\ Rest

\* servers := make(..., len(s.backends)); range s.backends
GetBackendsLen(t) ==
  /\ At(t, "gb_len")
  /\ Go(t, [req[t] EXCEPT !.n = Len(backends), !.i = 1,
                          !.pc = IF Len(backends) = 0 THEN "gb_runlock" ELSE "gb_read"])
  /\ UNCHANGED <<pool, mu>> /\ Rest

\* the element the loop reads at position i of the array: beyond the list
\* as it is now, what the array still holds there
ElementAt(i) == IF i <= Len(backends) THEN backends[i] ELSE NoBackend

\* one round of the loop: servers[i] = &algorithm.Server{... backend.Alive ...}
GetBackendsRead(t) ==
  /\ At(t, "gb_read")
  /\ Go(t, [req[t] EXCEPT !.snap = Append(@, ElementAt(req[t].i)),
                          !.i = @ + 1,
                          !.pc = IF req[t].i = req[t].n THEN "gb_runlock" ELSE "gb_read"])
  /\ UNCHANGED <<pool, mu>> /\ Rest

\* the deferred s.mu.RUnlock() and return servers
GetBackendsRUnlock(t) ==
  /\ At(t, "gb_runlock")
  /\ RUnlock(t, PoolLock)
  /\ Go(t, [req[t] EXCEPT !.pc = "ret"])
  /\ UNCHANGED pool /\ Rest

(* -------------------------- MarkBackendStatus -------------------------- *)
\* s.mu.RLock()
MarkRLock(t) ==
  /\ At(t, "mk_rlock")
  /\ RLock(t, PoolLock)
  /\ Go(t, [req[t] EXCEPT !.pc = "mk_find"])
  /\ UNCHANGED pool /\ Rest

\* for _, b := range s.backends { if b.URL.String() == backendUrl.String() {
MarkFind(t) ==
  /\ At(t, "mk_find")
  /\ LET b == FirstMatch(heap, backends, req[t].arg.URL)
     IN Go(t, [req[t] EXCEPT !.b = b,
                             !.pc = IF b = NoBackend THEN "mk_runlock" ELSE "mk_block"])
  /\ UNCHANGED <<pool, mu>> /\ Rest

\* b.mu.Lock()
MarkBLock(t) ==
  /\ At(t, "mk_block")
  /\ Lock(t, req[t].b, [req[t] EXCEPT !.pc = "mk_write"])
  /\ UNCHANGED pool /\ Rest

\* b.Alive = alive
MarkWrite(t) ==
  /\ At(t, "mk_write")
  /\ heap' = [heap EXCEPT ![req[t].b].Alive = req[t].arg.alive]
  /\ Go(t, [req[t] EXCEPT !.pc = "mk_bunlock"])
  /\ UNCHANGED <<backends, current, maxConnections, mu>> /\ Rest

\* b.mu.Unlock(); break
MarkBUnlock(t) ==
  /\ At(t, "mk_bunlock")
  /\ Unlock(t, req[t].b)
  /\ Go(t, [req[t] EXCEPT !.pc = "mk_runlock"])
  /\ UNCHANGED pool /\ Rest

\* MarkBackendStatus returning without the deferred s.mu.RUnlock()
MarkReturnsLocked(t) ==
  /\ At(t, "mk_runlock")
  /\ \E again \in BOOLEAN :
       Go(t, [req[t] EXCEPT !.pc = IF req[t].op = "ErrorHandler" /\ again
                                     THEN "np_add" ELSE "ret"])
  /\ UNCHANGED <<pool, mu>> /\ Rest

\* the deferred s.mu.RUnlock(); the ErrorHandler goes on to GetNextProxy when
\* retries < 3 and the request's context is not done, and returns otherwise
MarkRUnlock(t) ==
  /\ At(t, "mk_runlock")
  /\ RUnlock(t, PoolLock)
  /\ \E again \in BOOLEAN :
       Go(t, [req[t] EXCEPT !.pc = IF req[t].op = "ErrorHandler" /\ again
                                     THEN "np_add" ELSE "ret"])
  /\ UNCHANGED pool /\ Rest

(* ---------------------------- Backend methods -------------------------- *)
\* IsAlive: b.mu.RLock()
IsAliveRLock(t) ==
  /\ At(t, "ia_rlock")
  /\ RLock(t, req[t].arg)
  /\ Go(t, [req[t] EXCEPT !.pc = "ia_read", !.b = req[t].arg])
  /\ UNCHANGED pool /\ Rest

\* return b.Alive
IsAliveRead(t) ==
  /\ At(t, "ia_read")
  /\ Go(t, [req[t] EXCEPT !.pc = "ia_runlock"])
  /\ UNCHANGED <<pool, mu>> /\ Rest

\* the deferred b.mu.RUnlock()
IsAliveRUnlock(t) ==
  /\ At(t, "ia_runlock")
  /\ RUnlock(t, req[t].b)
  /\ Go(t, [req[t] EXCEPT !.pc = "ret"])
  /\ UNCHANGED pool /\ Rest

\* IncrementConnections: current := atomic.LoadInt32(&b.ConnectionCount) and
\* the capacity test
IncrementLoad(t) ==
  /\ At(t, "ic_load")
  /\ LET c == heap[req[t].arg].ConnectionCount
     IN Go(t, [req[t] EXCEPT !.b = req[t].arg, !.n = c,
                 !.pc = IF c >= heap[req[t].arg].MaxConnections THEN "ret" ELSE "ic_cas"])
  /\ UNCHANGED <<pool, mu>> /\ Rest

\* atomic.CompareAndSwapInt32(&b.ConnectionCount, current, current+1)
IncrementCas(t) ==
  /\ At(t, "ic_cas")
  /\ IF heap[req[t].b].ConnectionCount = req[t].n
       THEN /\ heap' = [heap EXCEPT ![req[t].b].ConnectionCount = @ + 1]
            /\ Go(t, [req[t] EXCEPT !.pc = "ret"])
       ELSE /\ Go(t, [req[t] EXCEPT !.pc = "ic_load"])
            /\ UNCHANGED heap
  /\ UNCHANGED <<backends, current, maxConnections, mu>> /\ Rest

\* DecrementConnections: atomic.AddInt32(&b.ConnectionCount, -1)
DecrementAdd(t) ==
  /\ At(t, "dc_add")
  /\ heap' = [heap EXCEPT ![req[t].arg].ConnectionCount = @ - 1]
  /\ Go(t, [req[t] EXCEPT !.pc = "ret", !.b = req[t].arg])
  /\ UNCHANGED <<backends, current, maxConnections, mu>> /\ Rest
(* ------------------------------ AddBackend ----------------------------- *)
\* url.Parse, the proxy and its ErrorHandler; maxConnections comes from
\* s.GetMaxConnections() when the config gives none
AddParse(t) ==
  /\ At(t, "ad_parse")
  /\ Go(t, [req[t] EXCEPT !.pc = IF req[t].arg.URL = BadURL THEN "ret"
                                 ELSE IF req[t].arg.MaxConnections = 0 THEN "gm_rlock"
                                 ELSE "ad_lock",
                          !.n = req[t].arg.MaxConnections])
  /\ UNCHANGED <<pool, mu>> /\ Rest

\* GetMaxConnections: s.mu.RLock()
GetMaxConnectionsRLock(t) ==
  /\ At(t, "gm_rlock")
  /\ RLock(t, PoolLock)
  /\ Go(t, [req[t] EXCEPT !.pc = "gm_runlock"])
  /\ UNCHANGED pool /\ Rest

\* return s.maxConnections and the deferred s.mu.RUnlock()
GetMaxConnectionsRUnlock(t) ==
  /\ At(t, "gm_runlock")
  /\ RUnlock(t, PoolLock)
  /\ Go(t, [req[t] EXCEPT !.pc = "ad_lock", !.n = maxConnections])
  /\ UNCHANGED pool /\ Rest

\* s.mu.Lock()
AddLock(t) ==
  /\ At(t, "ad_lock")
  /\ Lock(t, PoolLock, [req[t] EXCEPT !.pc = "ad_append"])
  /\ UNCHANGED pool /\ Rest

\* s.backends = append(s.backends, backend)
AddAppend(t) ==
  /\ At(t, "ad_append")
  /\ heap' = Append(heap, NewBackend(req[t].arg, req[t].n))
  /\ backends' = Append(backends, Len(heap) + 1)
  /\ Go(t, [req[t] EXCEPT !.pc = "ad_unlock"])
  /\ UNCHANGED <<current, maxConnections, mu>> /\ Rest

\* s.mu.Unlock(); return nil
AddUnlock(t) ==
  /\ At(t, "ad_unlock")
  /\ Unlock(t, PoolLock)
  /\ Go(t, [req[t] EXCEPT !.pc = "ret"])
  /\ UNCHANGED pool /\ Rest

(* ----------------------------- RemoveBackend --------------------------- *)
\* s.mu.Lock()
RemoveLock(t) ==
  /\ At(t, "rm_lock")
  /\ Lock(t, PoolLock, [req[t] EXCEPT !.pc = "rm_find"])
  /\ UNCHANGED pool /\ Rest

\* append(s.backends[:i], s.backends[i+1:]...) copies the tail down inside
\* the array of s.backends; the last place keeps what it held
Shifted(bs, i) ==
  [j \in 1..Len(bs) |-> IF j < i \/ j = Len(bs) THEN bs[j] ELSE bs[j + 1]]

\* url.Parse and the loop up to the first match, whose removal begins
RemoveFind(t) ==
  /\ At(t, "rm_find")
  /\ LET i == IF req[t].arg = BadURL THEN 0 ELSE FirstIndex(heap, backends, req[t].arg)
     IN IF i = 0
          THEN /\ Go(t, [req[t] EXCEPT !.pc = "rm_unlock"])
               /\ UNCHANGED backends
          ELSE /\ Go(t, [req[t] EXCEPT !.pc = "rm_store", !.i = i])
               /\ backends' = Shifted(backends, i)
  /\ UNCHANGED <<heap, current, maxConnections, mu>> /\ Rest

\* s.backends = the slice append returned, one shorter
RemoveStore(t) ==
  /\ At(t, "rm_store")
  /\ backends' = SubSeq(backends, 1, Len(backends) - 1)
  /\ Go(t, [req[t] EXCEPT !.pc = "rm_unlock"])
  /\ UNCHANGED <<heap, current, maxConnections, mu>> /\ Rest

\* the deferred s.mu.Unlock()
RemoveUnlock(t) ==
  /\ At(t, "rm_unlock")
  /\ Unlock(t, PoolLock)
  /\ Go(t, [req[t] EXCEPT !.pc = "ret"])
  /\ UNCHANGED pool /\ Rest

(* ----------------------------- UpdateBackends -------------------------- *)
\* s.mu.Lock(); newBackends := make([]*Backend, 0)
UpdateLock(t) ==
  /\ At(t, "up_lock")
  /\ Lock(t, PoolLock, [req[t] EXCEPT !.i = 1,
                          !.pc = IF Len(req[t].arg) = 0 THEN "up_store" ELSE "up_cfg"])
  /\ UNCHANGED pool /\ Rest

\* one round of the loop over configs
UpdateCfg(t) ==
  /\ At(t, "up_cfg")
  /\ LET cfg == req[t].arg[req[t].i]
         existing == FirstMatch(heap, backends, cfg.URL)
         pc == IF req[t].i = Len(req[t].arg) THEN "up_store" ELSE "up_cfg"
     IN IF cfg.URL = BadURL
          THEN /\ Go(t, [req[t] EXCEPT !.pc = "up_unlock"])
               /\ UNCHANGED heap
          ELSE IF existing # NoBackend
          THEN /\ heap' = [heap EXCEPT ![existing].Weight = cfg.Weight]
               /\ Go(t, [req[t] EXCEPT !.pc = pc, !.i = @ + 1, !.nb = Append(@, existing)])
          ELSE /\ heap' = Append(heap, ReloadedBackend(cfg))
               /\ Go(t, [req[t] EXCEPT !.pc = pc, !.i = @ + 1,
                                       !.nb = Append(@, Len(heap) + 1)])
  /\ UNCHANGED <<backends, current, maxConnections, mu>> /\ Rest

\* s.backends = newBackends
UpdateStore(t) ==
  /\ At(t, "up_store")
  /\ backends' = req[t].nb
  /\ Go(t, [req[t] EXCEPT !.pc = "up_unlock"])
  /\ UNCHANGED <<heap, current, maxConnections, mu>> /\ Rest

\* the deferred s.mu.Unlock()
UpdateUnlock(t) ==
  /\ At(t, "up_unlock")
  /\ Unlock(t, PoolLock)
  /\ Go(t, [req[t] EXCEPT !.pc = "ret"])
  /\ UNCHANGED pool /\ Rest

(* ---------------------------- specification ---------------------------- *)
\* the Backend objects a call allocates at most
Allocates(name, arg) ==
  IF name = "AddBackend" THEN 1
  ELSE IF name = "UpdateBackends" THEN Len(arg)
  ELSE 0

\* what the calls under way may still allocate
Pending ==
  LET P[k \in 0..NumThreads] ==
        IF k = 0 THEN 0
        ELSE P[k - 1] + IF req[k].pc = "ret" THEN 0 ELSE Allocates(req[k].op, req[k].arg)
  IN P[NumThreads]

\* a call is begun while the objects it may allocate fit
Begin(t) ==
  /\ Call(t)
  /\ Len(heap) + Pending + Allocates(req'[t].op, req'[t].arg) <= MaxLockObj

InitLock ==
  /\ \E n \in 1..NumURL :
       /\ heap = [i \in 1..n |-> NewBackend([URL |-> i, Weight |-> 1, MaxConnections |-> 1], 0)]
       /\ backends = [i \in 1..n |-> i]
  /\ current = 0
  /\ maxConnections = DefaultMaxConnections
  /\ req = [t \in Threads |-> NewThread]
  /\ picks = <<>>
  /\ start = 0
  /\ op = NoCall
  /\ NoOthers

NextLock ==
  \/ \E t \in Threads : Begin(t)
  \/ \E t \in Threads : PeerAdd(t)
  \/ \E t \in Threads : PeerRLock(t)
  \/ \E t \in Threads : PeerLen(t)
  \/ \E t \in Threads : PeerElem(t)
  \/ \E t \in Threads : PeerRUnlock(t)
  \/ \E t \in Threads : ProxyAdd(t)
  \/ \E t \in Threads : Forward(t)
  \/ \E t \in Threads : GetBackendsRLock(t)
  \/ \E t \in Threads : GetBackendsLen(t)
  \/ \E t \in Threads : GetBackendsRead(t)
  \/ \E t \in Threads : GetBackendsRUnlock(t)
  \/ \E t \in Threads : MarkRLock(t)
  \/ \E t \in Threads : MarkFind(t)
  \/ \E t \in Threads : MarkBLock(t)
  \/ \E t \in Threads : MarkWrite(t)
  \/ \E t \in Threads : MarkBUnlock(t)
  \/ \E t \in Threads : MarkRUnlock(t)
  \/ \E t \in Threads : IsAliveRLock(t)
  \/ \E t \in Threads : IsAliveRead(t)
  \/ \E t \in Threads : IsAliveRUnlock(t)
  \/ \E t \in Threads : IncrementLoad(t)
  \/ \E t \in Threads : IncrementCas(t)
  \/ \E t \in Threads : DecrementAdd(t)
  \/ \E t \in Threads : AddParse(t)
  \/ \E t \in Threads : GetMaxConnectionsRLock(t)
  \/ \E t \in Threads : GetMaxConnectionsRUnlock(t)
  \/ \E t \in Threads : AddLock(t)
  \/ \E t \in Threads : AddAppend(t)
  \/ \E t \in Threads : AddUnlock(t)
  \/ \E t \in Threads : RemoveLock(t)
  \/ \E t \in Threads : RemoveFind(t)
  \/ \E t \in Threads : RemoveStore(t)
  \/ \E t \in Threads : RemoveUnlock(t)
  \/ \E t \in Threads : UpdateLock(t)
  \/ \E t \in Threads : UpdateCfg(t)
  \/ \E t \in Threads : UpdateStore(t)
  \/ \E t \in Threads : UpdateUnlock(t)

SpecLock == InitLock /\ [][NextLock]_vars

(* ------------------------ claims under SpecLock ------------------------ *)
\* a removal has copied the tail down and not yet stored the shorter list:
\* the one state in which s.backends is partially updated
Torn == \E t \in Threads : At(t, "rm_store")

\* what GetNextPeer returns for cursor value next on the list as it is
PeerOf(next) ==
  IF Len(backends) = 0 THEN NoBackend ELSE backends[(next % Len(backends)) + 1]

\* C26: a GetBackends or GetNextPeer call that has read the list, at the
\* point where it lets go of the pool lock, has read the list as it is now,
\* and no mutation is half-way: what it returns is the whole list (or the
\* element) of one moment between two mutations, with every mutation that has
\* returned in it.
C26_ReadersSeeWholeList ==
  \A t \in Threads :
    /\ At(t, "gb_runlock") => (~Torn /\ req[t].snap = backends)
    /\ At(t, "np_runlock") => (~Torn /\ req[t].b = PeerOf(req[t].nxt))

\* a snapshot was completed after an AddBackend returned and holds the
\* backend it added
C26_Witness ==
  \E t, s \in Threads :
    /\ At(t, "gb_runlock") /\ Len(req[t].snap) = 2
    /\ At(s, "ret") /\ req[s].op = "AddBackend"
    /\ Len(heap) = 2 /\ req[t].snap[2] = 2

\* the statements at which a thread asks for the pool lock
PoolLockPcs == {"np_rlock", "gb_rlock", "mk_rlock", "gm_rlock", "ad_lock", "rm_lock", "up_lock"}

\* the statements outside every pool method: before a call, after its
\* return, between the calls of the ErrorHandler, and while it forwards
OutsidePcs == {"idle", "ret", "np_add", "px_add", "fwd"}

\* C27: a thread that has returned from a pool operation, or that forwards
\* or retries a request, holds no lock; a thread that asks for the pool lock
\* holds no backend lock, and a backend lock a pool method takes is taken
\* under the pool lock; and while a call is unfinished some thread can take
\* a step.
C27_LockDiscipline ==
  /\ \A t \in Threads :
       /\ req[t].pc \in OutsidePcs => HeldBy(t) = {}
       /\ req[t].pc \in PoolLockPcs => HeldBy(t) = {}
       /\ req[t].pc \in {"mk_block", "mk_write"} => <<t, PoolLock, "R">> \in mu.held
  /\ (\E t \in Threads : req[t].pc # "ret") => ENABLED NextLock

\* one thread holds a backend's lock under the pool's read lock while the
\* other waits for the pool's write lock
C27_Witness ==
  \E t, s \in Threads :
    /\ At(t, "mk_write") /\ <<t, req[t].b, "W">> \in mu.held
    /\ <<s, PoolLock>> \in mu.waiting

\* the accesses to Alive and ConnectionCount a thread's next statement makes
Access(t) ==
  IF At(t, "gb_read") /\ ElementAt(req[t].i) # NoBackend
    THEN {[b |-> ElementAt(req[t].i), field |-> f, write |-> FALSE, atomic |-> FALSE] :
            f \in {"Alive", "ConnectionCount"}}
  ELSE IF At(t, "mk_write")
    THEN {[b |-> req[t].b, field |-> "Alive", write |-> TRUE, atomic |-> FALSE]}
  ELSE IF At(t, "ia_read")
    THEN {[b |-> req[t].b, field |-> "Alive", write |-> FALSE, atomic |-> FALSE]}
  ELSE IF At(t, "px_add") \/ At(t, "ic_cas")
    THEN {[b |-> req[t].b, field |-> "ConnectionCount", write |-> TRUE, atomic |-> TRUE]}
  ELSE IF At(t, "dc_add")
    THEN {[b |-> req[t].arg, field |-> "ConnectionCount", write |-> TRUE, atomic |-> TRUE]}
  ELSE IF At(t, "ic_load")
    THEN {[b |-> req[t].arg, field |-> "ConnectionCount", write |-> FALSE, atomic |-> TRUE]}
  ELSE {}

\* two threads are about to access the same field of the same backend, one
\* of them writes, and not both accesses are atomic; no lock keeps them
\* apart, since both threads are at their access
Race ==
  \E t, s \in Threads : t # s /\
    \E a \in Access(t), c \in Access(s) :
      /\ a.b = c.b /\ a.field = c.field
      /\ (a.write \/ c.write)
      /\ ~(a.atomic /\ c.atomic)

\* C28: no read of Alive or ConnectionCount runs unsynchronised with
\* MarkBackendStatus's write of Alive or with an atomic update of
\* ConnectionCount.
C28_NoUnsynchronisedAccess == ~Race

\* C31: while GetNextPeer holds the read lock with its result computed, the
\* result is nil exactly when the list is empty, and otherwise it is a
\* backend of the list as it is; the index next % l it computes is within the
\* list (no call panics), although the cursor was advanced before the lock,
\* whatever AddBackend, RemoveBackend and UpdateBackends do meanwhile.
C31_PeerIsMemberOrNil ==
  \A t \in Threads :
    /\ ~At(t, "panic")
    /\ At(t, "np_elem") =>
         /\ req[t].n = Len(backends)
         /\ (req[t].nxt % req[t].n) + 1 \in 1..Len(backends)
    /\ At(t, "np_runlock") =>
         /\ (req[t].b = NoBackend <=> Len(backends) = 0)
         /\ (req[t].b # NoBackend => \E i \in 1..Len(backends) : backends[i] = req[t].b)

\* a peer was returned from a list a RemoveBackend had shortened, for a
\* cursor value beyond the list's length
C31_Witness ==
  \E t, s \in Threads :
    /\ At(t, "np_runlock") /\ req[t].b # NoBackend
    /\ req[t].nxt >= Len(backends)
    /\ At(s, "ret") /\ req[s].op = "RemoveBackend" /\ req[s].i > 0

=============================================================================
